---- MODULE Spec2Model ----
(***************************************************************************)
(* Model of the FluidSolver class (src/services/fluidSolver.ts): the 2D     *)
(* compressible Euler solver with Roe flux difference splitting, its       *)
(* boundary model, positivity repair and scalar-field view.                *)
(*                                                                         *)
(* NUMBERS.  A JavaScript number is modelled as a fixed-point integer n    *)
(* standing for n / SC, or one of three special values: NaN, PInf (the     *)
(* +Infinity of IEEE 754) and NInf (-Infinity).  Finite results of          *)
(* magnitude above DMAX overflow to an infinity, as a double does above    *)
(* Number.MAX_VALUE; a store into a Float32Array (fround) overflows above  *)
(* F32MAX, the narrower range of a 32-bit float.  Products, quotients and  *)
(* square roots are truncated to the grid.  Signed zeros are not kept.     *)
(*                                                                         *)
(* UNITS.  The Euler equations are invariant under a change of units, and  *)
(* the program's constants are written in these units so that the values   *)
(* of a step fit the integer range:                                        *)
(*   density 0.05 kg/m^3, pressure and energy density 100 Pa, hence        *)
(*   velocity sqrt(100/0.05) = 44.72136 m/s, temperature 10 K,             *)
(*   time 1e-5 s, length 44.72136e-5 m.                                    *)
(* A constant of the source that is positive but below the grid step       *)
(* (1e-6 and 1e-9 kg/m^3) is one grid step.                                *)
(***************************************************************************)
EXTENDS Integers, Sequences, FiniteSets, TLC

\* fixed-point scale: the integer n is the number n / SC
SC == 1000
\* largest finite double of the model (Number.MAX_VALUE)
DMAX == 1000000000
\* largest finite 32-bit float of the model
F32MAX == 200000000

PInf == DMAX + 1
NInf == 0 - (DMAX + 1)
NaN  == DMAX + 2

isNaN(a) == a = NaN
isFinite(a) == a # NaN /\ a # PInf /\ a # NInf
IsInf(a) == a = PInf \/ a = NInf

AbsI(n) == IF n < 0 THEN 0 - n ELSE n
SgnI(n) == IF n < 0 THEN 0 - 1 ELSE IF n > 0 THEN 1 ELSE 0

\* a finite integer result, overflowing to an infinity beyond DMAX
Sat(n) == IF n > DMAX THEN PInf ELSE IF n < 0 - DMAX THEN NInf ELSE n

\* the infinity of sign s (s # 0)
InfOf(s) == IF s < 0 THEN NInf ELSE PInf

\* a + b
FAdd(a, b) ==
  IF isNaN(a) \/ isNaN(b) THEN NaN
  ELSE IF IsInf(a) THEN (IF IsInf(b) /\ b # a THEN NaN ELSE a)
  ELSE IF IsInf(b) THEN b
  ELSE Sat(a + b)

\* -a
FNeg(a) == IF isNaN(a) THEN NaN ELSE 0 - a

\* a - b
FSub(a, b) == FAdd(a, FNeg(b))

\* x * y / SC for 0 <= x <= y <= DMAX, without leaving the integer range
MulAbs(x, y) ==
  IF x = 0 THEN 0
  ELSE LET yq == y \div SC
           yr == y % SC
       IN IF yq > DMAX \div x THEN PInf
          ELSE Sat(x * yq + (x * yr) \div SC)

\* a * b
FMul(a, b) ==
  IF isNaN(a) \/ isNaN(b) THEN NaN
  ELSE IF IsInf(a) \/ IsInf(b)
       THEN (IF a = 0 \/ b = 0 THEN NaN ELSE InfOf(SgnI(a) * SgnI(b)))
  ELSE LET x == AbsI(a)
           y == AbsI(b)
           m == IF x <= y THEN MulAbs(x, y) ELSE MulAbs(y, x)
       IN IF SgnI(a) * SgnI(b) < 0 THEN FNeg(m) ELSE m

\* x * SC / y for 0 <= x <= DMAX, 0 < y <= DMAX
DivAbs(x, y) ==
  IF y > 2000000 THEN x \div (y \div SC)
  ELSE LET q == x \div y
           r == x % y
       IN IF q > DMAX \div SC THEN PInf
          ELSE Sat(q * SC + (r * SC) \div y)

\* a / b
FDiv(a, b) ==
  IF isNaN(a) \/ isNaN(b) THEN NaN
  ELSE IF IsInf(a) THEN (IF IsInf(b) THEN NaN
                         ELSE InfOf(SgnI(a) * (IF b < 0 THEN 0 - 1 ELSE 1)))
  ELSE IF IsInf(b) THEN 0
  ELSE IF b = 0 THEN (IF a = 0 THEN NaN ELSE InfOf(SgnI(a)))
  ELSE LET m == DivAbs(AbsI(a), AbsI(b))
       IN IF SgnI(a) * SgnI(b) < 0 THEN FNeg(m) ELSE m

\* the largest and the smallest element of a finite non-empty set of integers
SetMax(S) == CHOOSE m \in S : \A x \in S : x <= m
SetMin(S) == CHOOSE m \in S : \A x \in S : m <= x

\* the largest r + d * b, d in 0 .. 15, whose square is at most n
ISqrtDigit(n, r, b) ==
  SetMax({c \in {r + d * b : d \in 0 .. 15} : c = 0 \/ c <= n \div c})

\* floor of the square root of 0 <= n < 2^32, one hexadecimal digit at a time
ISqrt(n) ==
  ISqrtDigit(n, ISqrtDigit(n, ISqrtDigit(n, ISqrtDigit(n, 0, 4096), 256), 16), 1)

\* Math.sqrt(a)
FSqrt(a) ==
  IF isNaN(a) \/ a < 0 THEN NaN
  ELSE IF a = PInf THEN PInf
  ELSE IF a <= 2000000 THEN ISqrt(a * SC)
  ELSE IF a <= 200000000 THEN 10 * ISqrt(a * 10)
  ELSE 100 * ISqrt(a \div 10)

\* Math.max(a, b), Math.min(a, b): NaN when either is NaN
FMax(a, b) == IF isNaN(a) \/ isNaN(b) THEN NaN ELSE IF a >= b THEN a ELSE b
FMin(a, b) == IF isNaN(a) \/ isNaN(b) THEN NaN ELSE IF a <= b THEN a ELSE b

\* Math.abs(a)
FAbs(a) == IF isNaN(a) THEN NaN ELSE AbsI(a)

\* a < b, a > b: false when either is NaN
FLt(a, b) == ~isNaN(a) /\ ~isNaN(b) /\ a < b
FGt(a, b) == ~isNaN(a) /\ ~isNaN(b) /\ a > b

\* ln(2)
Ln2 == 693

\* ln(m / SC) * SC for SC <= m < 2 * SC, by the series in (m-1)/(m+1)
LnMantissa(m) ==
  LET y == ((m - SC) * SC) \div (m + SC)
      y2 == (y * y) \div SC
      y3 == (y2 * y) \div SC
      y5 == (y3 * y2) \div SC
  IN 2 * (y + y3 \div 3 + y5 \div 5)

\* a halved k times (k >= 0), or a < SC doubled -k times (k < 0); 0, which
\* is no mantissa, when a >= SC is to be doubled
Scaled(a, k) ==
  IF k >= 0 THEN a \div (2 ^ k)
  ELSE IF a < SC THEN a * (2 ^ (0 - k))
  ELSE 0

\* ln(a / SC) * SC for a finite a > 0: a = m * 2^k with m in [SC, 2 * SC)
LnPos(a) ==
  LET k == CHOOSE e \in (0 - 10) .. 20 :
             Scaled(a, e) >= SC /\ Scaled(a, e) < 2 * SC
  IN k * Ln2 + LnMantissa(Scaled(a, k))

\* Math.log(a)
FLog(a) ==
  IF isNaN(a) \/ a < 0 THEN NaN
  ELSE IF a = 0 THEN NInf
  ELSE IF a = PInf THEN PInf
  ELSE LnPos(a)

\* the value a Float32Array element holds after a store of a
fround(a) ==
  IF isNaN(a) THEN NaN
  ELSE IF a > F32MAX THEN PInf
  ELSE IF a < 0 - F32MAX THEN NInf
  ELSE a

(***************************************************************************)
(* Program constants, in the model's units.                                *)
(***************************************************************************)
\* PHYSICS_CONSTANTS.GAMMA = 1.4
GAMMA == 1400
\* PHYSICS_CONSTANTS.R = 287.05 J/(kg K) = 1.435 velocity^2 per 10 K
R_GAS == 1435
\* the literals 1, 0.5, 2, 0.25 and 0
One == 1000
Half == 500
Two == 2000
Quarter == 250
Zero == 0
\* domainLength = 0.9 m
domainLength == 2012461
\* safeRho floor 1e-4 kg/m^3 of getPressure
SafeRhoFloor == 2
\* pressure clamp 10.0 Pa of getPressure
PClamp == 100
\* density floor 1e-6 kg/m^3 of roeFlux1D and calculateTimeStep
KernelRhoFloor == 1
\* eps = 1e-9 of roeFlux1D, and the 1e-9 of getScalarField
eps == 1
\* sound speed floor: c2 floored at 50.0 m^2/s^2
C2Floor == 25
\* maxSpeed floor 10.0 m/s of calculateTimeStep
MaxSpeedFloor == 224
\* hard cap 0.00005 s of calculateTimeStep
DtCap == 5000
\* minRho = 0.05 kg/m^3 and minP = 100.0 Pa of fixPositivityAndCheckStability
minRho == 1000
minP == 1000
\* tAmb = 300 K
tAmb == 30000
\* the constructor's cached states: rho 1.2 and 1.225 kg/m^3, p 101325 Pa
CtorInletRho == 24000
CtorAmbientRho == 24500
CtorPressure == 1013250
\* schlieren gain: 10 per kg/m^4, in density units per length unit
SchlierenGain == 1118034

(***************************************************************************)
(* Bounds of the model.                                                    *)
(***************************************************************************)
\* step() calls per behaviour
MaxSteps == 2

\* grids (nx, ny) the solver is constructed with; <<3, 3>> is below the
\* documented minimum of 4
Dims == {<<4, 4>>, <<4, 5>>, <<3, 3>>}

\* (pt, tt, mach, pAmb) passed to updateBoundaryConditions:
\*   the driver's defaults (350000 Pa, 1000 K, Mach 2, 101325 Pa);
\*   a quiescent inlet at ambient conditions (Mach 0, 300 K);
\*   a cold, dense Mach 3 inlet whose momentum exceeds the float32 range;
\*   a zero total temperature (an invalid argument), at 50662.5 Pa ambient;
\*   a Mach 8 inlet into a 2000 Pa ambient: the inlet's static pressure and
\*   the ambient density are below the floors of the positivity repair
ParamsDefault == <<3500000, 100000, 2000, 1013250>>
ParamsQuiet   == <<1013250, 30000, 0, 1013250>>
ParamsDense   == <<690000000, 195, 3000, 1013250>>
ParamsZeroT   == <<3500000, 0, 2000, 506625>>
ParamsThin    == <<3500000, 100000, 8000, 20000>>
Params == {ParamsDefault, ParamsQuiet, ParamsDense, ParamsZeroT, ParamsThin}

\* reservoirs at rest (Mach 0): the default reservoir, and a 1000 Pa
\* reservoir into a 1000 Pa ambient whose density is below the floor
ParamsStill == <<3500000, 100000, 0, 1013250>>
ParamsFaint == <<10000, 30000, 0, 10000>>
ParamsTwice == {ParamsDefault, ParamsQuiet, ParamsStill, ParamsFaint}

\* animation frames per behaviour of the hook
MaxFrames == 3

\* the speeds of the control panel: 0.5x, 1x, 2x, 4x
UISpeeds == {500, 1000, 2000, 4000}

\* simulationSpeed of a frame: the speeds of the control panel, and 9.75 and
\* 11.25, which reach and exceed the cap of steps per frame
Speeds == UISpeeds \cup {9750, 11250}

\* the grid the hook constructs, reduced from 300 x 150
DriverDims == <<4, 4>>

\* cfl values passed to step()
Cfls == {500, 1000}

Modes == {"density", "pressure", "velocity", "temperature", "mach", "schlieren"}

VARIABLES
  nx, ny,        \* grid dimensions
  Q,             \* committed field: cell index -> <<rho, rhou, rhov, rhoE>>
  Q_new,         \* tentative field Q'
  t,             \* simulation clock
  inletState,    \* cached boundary states [rho, u, v, p, E]
  ambientState,
  pc,            \* program point of the step() in flight, "idle" between calls
  dt,            \* the dt of the step() in flight or last run
  isStable,      \* the isStable of the step() in flight or last run
  tPre,          \* t when the last step() was entered
  call,          \* the last operation called and its arguments
  ret,           \* what the last call returned
  boundary,      \* the arguments of the last updateBoundaryConditions, <<>> if none
  viewRep,       \* consecutive getScalarField calls with the same mode, up to 2
  steps,         \* step() calls so far
  dpc,           \* the useFluidSolver hook: "unmounted", "wait" between
                 \* animation frames, "loop" within the step loop of animate
  stepsAccumulator,  \* stepsAccumulator.current
  stepsToRun,    \* stepsToRun and the loop index of the frame in flight
  stepIndex,
  solverTime,    \* the solverTime the hook publishes
  frame,         \* the accumulator, the speed and the steps count with which
                 \* the frame in flight or last run was entered; and, since
                 \* the accumulator was last set to 0 by construction or
                 \* resetSolver: the sum of the speeds of the frames (sum),
                 \* the steps count it started from (base) and whether
                 \* all speeds were speeds of the control panel (ui)
  frames,        \* animation frames so far
  first          \* a record of the first step() of the behaviour, kept when
                 \* first.rec: what the step was entered with (Q, cfl and
                 \* the cached states; the stale Q' and t) and, once it has
                 \* ended, what it left (Q and isStable)

\* the state of the solver and the state of the hook that drives it
solverVars == <<nx, ny, Q, Q_new, t, inletState, ambientState, pc, dt, isStable,
                tPre, call, ret, boundary, viewRep, steps>>
driverVars == <<dpc, stepsAccumulator, stepsToRun, stepIndex, solverTime,
                frame, frames>>
vars == <<solverVars, driverVars, first>>

\* what a call that returns no value returns
Returned == [status |-> "ok", data |-> <<>>, min |-> Zero, max |-> Zero]
\* the call has not returned yet
Running == [status |-> "running", data |-> <<>>, min |-> Zero, max |-> Zero]

Cells == 0 .. (nx * ny - 1)

\* element idx of a buffer laid out as 4 floats per cell
Rd(q, idx) == q[idx \div 4][(idx % 4) + 1]

\* dx = domainLength / nx, dy = dx
dx == FDiv(domainLength, nx * SC)
dy == dx

GammaM1 == FSub(GAMMA, One)

getPressure(rho, rhou, rhov, rhoE) ==
  LET safeRho == FMax(SafeRhoFloor, rho)
      kinE == FDiv(FMul(Half, FAdd(FMul(rhou, rhou), FMul(rhov, rhov))), safeRho)
      p == FMul(GammaM1, FSub(rhoE, kinE))
  IN FMax(PClamp, p)

computeEnergy(rho, u, v, p) ==
  FAdd(FDiv(p, GammaM1), FMul(FMul(Half, rho), FAdd(FMul(u, u), FMul(v, v))))

\* Math.pow(b, gamma / (gamma - 1)) = b^3.5
Pow35(b) ==
  IF isNaN(b) \/ b < 0 THEN NaN
  ELSE FMul(FMul(FMul(b, b), b), FSqrt(b))

\* the inletState that updateBoundaryConditions(pt, tt, mach, pAmb) caches
inletOf(pt, tt, mach) ==
  LET f == FAdd(One, FMul(FMul(FMul(GammaM1, Half), mach), mach))
      tStatic == FDiv(tt, f)
      pStatic == FDiv(pt, Pow35(f))
      rhoStatic == FDiv(pStatic, FMul(R_GAS, tStatic))
      c == FSqrt(FMul(FMul(GAMMA, R_GAS), tStatic))
      uStatic == FMul(mach, c)
  IN [rho |-> rhoStatic, u |-> uStatic, v |-> Zero, p |-> pStatic,
      E |-> computeEnergy(rhoStatic, uStatic, Zero, pStatic)]

\* the ambientState that updateBoundaryConditions(pt, tt, mach, pAmb) caches
ambientOf(pAmb) ==
  LET rhoAmb == FDiv(pAmb, FMul(R_GAS, tAmb))
  IN [rho |-> rhoAmb, u |-> Zero, v |-> Zero, p |-> pAmb,
      E |-> computeEnergy(rhoAmb, Zero, Zero, pAmb)]

\* the 4 floats a cell holds after the stores of the conservative tuple
\* (rho, rho*u, rho*v, E) of a cached state
conservative(st) ==
  <<fround(st.rho), fround(FMul(st.rho, st.u)), fround(FMul(st.rho, st.v)),
    fround(st.E)>>

(***************************************************************************)
(* applyBoundaryConditions: three loops over Q', each reading what the     *)
(* loops before it wrote.                                                  *)
(***************************************************************************)
centerY == ny \div 2
radius == ny \div 8

\* an aperture test that excludes the rows at distance radius
InApertureStrict(j) == AbsI(j - centerY) < radius

InAperture(j) == AbsI(j - centerY) <= radius

\* loop 1 (inlet column): the cell of row j at column 0
inletCell(q, j) ==
  LET idx == (j * nx) * 4
  IN IF InAperture(j)
     THEN conservative(inletState)
     ELSE LET rho == Rd(q, idx + 4)
              rhov == Rd(q, idx + 4 + 2)
              p == getPressure(Rd(q, idx + 4), Rd(q, idx + 4 + 1),
                               Rd(q, idx + 4 + 2), Rd(q, idx + 4 + 3))
          IN <<rho, Zero, rhov,
               fround(computeEnergy(rho, Zero, FDiv(rhov, rho), p))>>

applyInlet(q) ==
  [c \in Cells |-> IF c % nx = 0 THEN inletCell(q, c \div nx) ELSE q[c]]

\* an outlet that extrapolates linearly from columns nx-2 and nx-1
applyOutletLinear(q) ==
  [c \in Cells |->
     IF c % nx = nx - 1
     THEN <<fround(FSub(FMul(Two, q[c - 1][1]), q[c][1])),
            fround(FSub(FMul(Two, q[c - 1][2]), q[c][2])),
            fround(FSub(FMul(Two, q[c - 1][3]), q[c][3])),
            fround(FSub(FMul(Two, q[c - 1][4]), q[c][4]))>>
     ELSE q[c]]

\* an outlet loop that copies density and momentum but not the energy
applyOutletPartial(q) ==
  [c \in Cells |->
     IF c % nx = nx - 1
     THEN <<q[c - 1][1], q[c - 1][2], q[c - 1][3], q[c][4]>>
     ELSE q[c]]

\* loop 2 (outlet column): copy column nx-2 into column nx-1
applyOutlet(q) ==
  [c \in Cells |-> IF c % nx = nx - 1 THEN q[c - 1] ELSE q[c]]

\* loop 3 (far field): rows 0 and ny-1 are set to ambient
farFieldCell == <<fround(ambientState.rho), Zero, Zero, fround(ambientState.E)>>

\* a far-field loop that writes the bottom row only
applyFarFieldBottom(q) ==
  [c \in Cells |-> IF c \div nx = 0 THEN farFieldCell ELSE q[c]]

applyFarField(q) ==
  [c \in Cells |-> IF c \div nx = 0 \/ c \div nx = ny - 1 THEN farFieldCell
                   ELSE q[c]]

applyBoundaryConditions(q) == applyFarField(applyOutlet(applyInlet(q)))

(***************************************************************************)
(* initializeField(): the fill loop over Q; the applyBoundaryConditions()  *)
(* it ends with works on Q' and is part of the actions that call it.       *)
(***************************************************************************)
\* a fill that leaves cell c as it was
keepCell(q, c) == q[c]

\* the 4 floats initializeField stores in cell c of a buffer holding q
initializeCell(q, c) == conservative(ambientState)

\* a fill that skips the inlet column
initializeFieldInterior(q) ==
  [c \in Cells |-> IF c % nx = 0 THEN q[c] ELSE initializeCell(q, c)]

\* a fill followed by a boundary imprint on the same buffer
initializeFieldImprinted(q) ==
  applyBoundaryConditions([c \in Cells |-> initializeCell(q, c)])

\* Q after the fill loop of initializeField ran on a buffer holding q
initializeField(q) == [c \in Cells |-> initializeCell(q, c)]

\* a freshly allocated Float32Array of nx * ny * 4 zeros
zeroField(n) == [c \in 0 .. (n - 1) |-> <<Zero, Zero, Zero, Zero>>]

Construct ==
  /\ \E d \in Dims : nx = d[1] /\ ny = d[2] /\ Q = zeroField(d[1] * d[2])
                     /\ Q_new = zeroField(d[1] * d[2])
                     /\ call = [op |-> "construct", args |-> d]
  /\ t = Zero
  /\ inletState = [rho |-> CtorInletRho, u |-> Zero, v |-> Zero,
                   p |-> CtorPressure, E |-> Zero]
  /\ ambientState = [rho |-> CtorAmbientRho, u |-> Zero, v |-> Zero,
                     p |-> CtorPressure, E |-> Zero]
  /\ pc = "idle"
  /\ dt = Zero
  /\ isStable = TRUE
  /\ tPre = Zero
  /\ ret = Returned
  /\ boundary = <<>>
  /\ viewRep = 0
  /\ steps = 0
  /\ dpc = "unmounted"
  /\ stepsAccumulator = Zero
  /\ stepsToRun = 0
  /\ stepIndex = 0
  /\ solverTime = Zero
  /\ frame = [acc |-> Zero, speed |-> Zero, steps |-> 0, done |-> FALSE,
              sum |-> Zero, base |-> 0, ui |-> TRUE]
  /\ frames = 0

\* no step() has been recorded
NoFirst == [rec |-> FALSE, pre |-> <<>>, stale |-> <<>>, t |-> Zero, out |-> <<>>]

Init == Construct /\ first = NoFirst

\* updateBoundaryConditions(pt, tt, mach, pAmb)
UpdateBoundary(a) ==
  /\ pc = "idle"
  /\ inletState' = inletOf(a[1], a[2], a[3])
  /\ ambientState' = ambientOf(a[4])
  /\ call' = [op |-> "update_boundary", args |-> a]
  /\ ret' = Returned
  /\ boundary' = a
  /\ viewRep' = 0
  /\ UNCHANGED <<nx, ny, Q, Q_new, t, pc, dt, isStable, tPre, steps>>
  /\ UNCHANGED driverVars
  /\ UNCHANGED first

\* the t that reset() assigns
resetT == Zero

\* reset()
Reset ==
  /\ pc = "idle"
  /\ t' = resetT
  /\ Q' = initializeField(Q)
  /\ Q_new' = applyBoundaryConditions(Q_new)
  /\ call' = [op |-> "reset", args |-> <<>>]
  /\ ret' = Returned
  /\ viewRep' = 0
  /\ UNCHANGED <<nx, ny, inletState, ambientState, pc, dt, isStable, tPre,
                 boundary, steps>>
  /\ UNCHANGED driverVars
  /\ UNCHANGED first

(***************************************************************************)
(* roeFlux1D(idxL, idxR, nx, ny): the flux across the face between the     *)
(* cells at buffer offsets idxL and idxR of Q, for the face normal         *)
(* (nX, nY); <<mass, x-momentum, y-momentum, energy>>.                     *)
(***************************************************************************)
\* Harten's entropy fix of one eigenvalue
fix(l, delta) ==
  IF FLt(l, delta)
  THEN FDiv(FAdd(FMul(l, l), FMul(delta, delta)), FMul(Two, delta))
  ELSE l

\* The body of roeFlux1D past its guard, one operator per group of
\* statements.  Each takes the record s of the locals assigned so far and
\* returns it extended by the locals its statements assign.

\* uL, vL, uR, vR: the velocities rotated into the frame of the face normal
roeRotated(s) ==
  s @@ [uL |-> FAdd(FMul(s.uL_raw, s.nX), FMul(s.vL_raw, s.nY)),
        vL |-> FAdd(FMul(FNeg(s.uL_raw), s.nY), FMul(s.vL_raw, s.nX)),
        uR |-> FAdd(FMul(s.uR_raw, s.nX), FMul(s.vR_raw, s.nY)),
        vR |-> FAdd(FMul(FNeg(s.uR_raw), s.nY), FMul(s.vR_raw, s.nX))]

\* sL, sR
roeRoots(s) == s @@ [sL |-> FSqrt(s.rL), sR |-> FSqrt(s.rR)]

\* id and the Roe averages u, v, h
roeAverages(s) ==
  LET id == FDiv(One, FAdd(FAdd(s.sL, s.sR), eps))
  IN s @@ [u |-> FMul(FAdd(FMul(s.sL, s.uL), FMul(s.sR, s.uR)), id),
           v |-> FMul(FAdd(FMul(s.sL, s.vL), FMul(s.sR, s.vR)), id),
           h |-> FMul(FAdd(FMul(s.sL, s.hL), FMul(s.sR, s.hR)), id)]

\* q2, c2 and the sound speed c
roeSound(s) ==
  LET q2 == FAdd(FMul(s.u, s.u), FMul(s.v, s.v))
      c2 == FMul(GammaM1, FSub(s.h, FMul(Half, q2)))
  IN s @@ [q2 |-> q2, c |-> FSqrt(FMax(C2Floor, c2))]

\* the eigenvalues l1..l4 after the entropy fix
roeEigen(s) ==
  LET l1 == FAbs(FSub(s.u, s.c))
      l2 == FAbs(s.u)
      l3 == FAbs(s.u)
      l4 == FAbs(FAdd(s.u, s.c))
      delta == FMul(Quarter, FAdd(FAbs(s.u), s.c))
  IN s @@ [L1 |-> fix(l1, delta), L2 |-> fix(l2, delta),
           L3 |-> fix(l3, delta), L4 |-> fix(l4, delta)]

\* roeWaves with the density jump taken as a sum
roeWavesSum(s) ==
  LET dr == FAdd(s.rR, s.rL)
      du == FSub(s.uR, s.uL)
      dv == FSub(s.vR, s.vL)
      dp == FSub(s.pR, s.pL)
      rhoRoe == FMul(s.sL, s.sR)
      twoc2 == FMul(FMul(Two, s.c), s.c)
      alpha1 == FDiv(FSub(dp, FMul(FMul(rhoRoe, s.c), du)), twoc2)
      alpha2 == FSub(dr, FDiv(dp, FMul(s.c, s.c)))
      alpha3 == FMul(rhoRoe, dv)
      alpha4 == FDiv(FAdd(dp, FMul(FMul(rhoRoe, s.c), du)), twoc2)
  IN s @@ [alpha1 |-> alpha1, alpha2 |-> alpha2,
           alpha3 |-> alpha3, alpha4 |-> alpha4,
           w1 |-> FMul(s.L1, alpha1), w2 |-> FMul(s.L2, alpha2),
           w3 |-> FMul(s.L3, alpha3), w4 |-> FMul(s.L4, alpha4)]

\* the jumps, the wave strengths alpha1..alpha4 and w_k = l_k * alpha_k
roeWaves(s) ==
  LET dr == FSub(s.rR, s.rL)
      du == FSub(s.uR, s.uL)
      dv == FSub(s.vR, s.vL)
      dp == FSub(s.pR, s.pL)
      rhoRoe == FMul(s.sL, s.sR)
      twoc2 == FMul(FMul(Two, s.c), s.c)
      alpha1 == FDiv(FSub(dp, FMul(FMul(rhoRoe, s.c), du)), twoc2)
      alpha2 == FSub(dr, FDiv(dp, FMul(s.c, s.c)))
      alpha3 == FMul(rhoRoe, dv)
      alpha4 == FDiv(FAdd(dp, FMul(FMul(rhoRoe, s.c), du)), twoc2)
  IN s @@ [alpha1 |-> alpha1, alpha2 |-> alpha2,
           alpha3 |-> alpha3, alpha4 |-> alpha4,
           w1 |-> FMul(s.L1, alpha1), w2 |-> FMul(s.L2, alpha2),
           w3 |-> FMul(s.L3, alpha3), w4 |-> FMul(s.L4, alpha4)]

\* the dissipation d0..d3
roeDissipation(s) ==
  s @@ [d0 |-> FAdd(FAdd(s.w1, s.w2), s.w4),
        d1 |-> FAdd(FAdd(FMul(s.w1, FSub(s.u, s.c)), FMul(s.w2, s.u)),
                    FMul(s.w4, FAdd(s.u, s.c))),
        d2 |-> FAdd(FAdd(FAdd(FMul(s.w1, s.v), FMul(s.w2, s.v)), s.w3),
                    FMul(s.w4, s.v)),
        d3 |-> FAdd(FAdd(FAdd(FMul(s.w1, FSub(s.h, FMul(s.u, s.c))),
                              FMul(s.w2, FMul(Half, s.q2))),
                         FMul(s.w3, s.v)),
                    FMul(s.w4, FAdd(s.h, FMul(s.u, s.c))))]

\* the physical fluxes FL, FR of both sides and fn = 0.5*(FL+FR) - 0.5*d
roeNormalFlux(s) ==
  LET FL0 == FMul(s.rL, s.uL)
      FL1 == FAdd(FMul(FMul(s.rL, s.uL), s.uL), s.pL)
      FL2 == FMul(FMul(s.rL, s.uL), s.vL)
      FL3 == FMul(FMul(s.rL, s.uL), s.hL)
      FR0 == FMul(s.rR, s.uR)
      FR1 == FAdd(FMul(FMul(s.rR, s.uR), s.uR), s.pR)
      FR2 == FMul(FMul(s.rR, s.uR), s.vR)
      FR3 == FMul(FMul(s.rR, s.uR), s.hR)
  IN <<FSub(FMul(Half, FAdd(FL0, FR0)), FMul(Half, s.d0)),
       FSub(FMul(Half, FAdd(FL1, FR1)), FMul(Half, s.d1)),
       FSub(FMul(Half, FAdd(FL2, FR2)), FMul(Half, s.d2)),
       FSub(FMul(Half, FAdd(FL3, FR3)), FMul(Half, s.d3))>>

\* the returned array: fn rotated back into the grid frame
roeRotatedBack(fn, nX, nY) ==
  <<fn[1],
    FSub(FMul(fn[2], nX), FMul(fn[3], nY)),
    FAdd(FMul(fn[2], nY), FMul(fn[3], nX)),
    fn[4]>>

\* the locals of roeFlux1D when it reaches its physical flux average
roeLocals(s) ==
  roeDissipation(roeWaves(roeEigen(roeSound(roeAverages(
    roeRoots(roeRotated(s)))))))

\* the flux of roeFlux1D past its guard, from the primitives of both sides
roeFluxOf(s) == roeRotatedBack(roeNormalFlux(roeLocals(s)), s.nX, s.nY)

\* the primitives of the cell at buffer offset idx of Q: r, u, v, p, h
roePrimitives(idx) ==
  LET r == FMax(KernelRhoFloor, Rd(Q, idx))
      p == getPressure(r, Rd(Q, idx + 1), Rd(Q, idx + 2), Rd(Q, idx + 3))
  IN <<r, FDiv(Rd(Q, idx + 1), r), FDiv(Rd(Q, idx + 2), r), p,
       FDiv(FAdd(Rd(Q, idx + 3), p), r)>>

\* roeFlux1D on the primitives l and r of its two cells
roeInputs(l, r, nX, nY) ==
  [rL |-> l[1], uL_raw |-> l[2], vL_raw |-> l[3], pL |-> l[4], hL |-> l[5],
   rR |-> r[1], uR_raw |-> r[2], vR_raw |-> r[3], pR |-> r[4], hR |-> r[5],
   nX |-> nX, nY |-> nY]

roeGuarded(l, r, nX, nY) ==
  IF isNaN(l[4]) \/ isNaN(r[4]) THEN <<Zero, Zero, Zero, Zero>>
  ELSE roeFluxOf(roeInputs(l, r, nX, nY))

roeFlux1D(idxL, idxR, nX, nY) ==
  roeGuarded(roePrimitives(idxL), roePrimitives(idxR), nX, nY)

(***************************************************************************)
(* computeFluxes(dt, h, dirX, dirY).  Every face flux is read from Q and   *)
(* accumulated into Q'; in the loop order of the source a cell first       *)
(* receives the flux of the face towards lower indices (as its right       *)
(* cell) and then gives the flux of the face towards higher indices (as    *)
(* its left cell).  Each -= and += stores a float32.                       *)
(***************************************************************************)
\* idxL and idxR with the rows of the Y direction strided by ny
faceOfStrided(isX, j, i) ==
  IF isX THEN <<(j * nx + i) * 4, (j * nx + i + 1) * 4>>
  ELSE <<(i * ny + j) * 4, ((i + 1) * ny + j) * 4>>

\* idxL and idxR of the loop body at loop variables j (outer) and i (inner)
faceOf(isX, j, i) ==
  IF isX THEN <<(j * nx + i) * 4, (j * nx + i + 1) * 4>>
  ELSE <<(i * nx + j) * 4, ((i + 1) * nx + j) * 4>>

\* the faces on which the loops call roeFlux1D, in the order of the calls
computeFluxesFaces(isX) ==
  LET outer == IF isX THEN ny ELSE nx
      inner == IF isX THEN nx ELSE ny
  IN [n \in 1 .. outer * (inner - 1) |->
        faceOf(isX, (n - 1) \div (inner - 1), (n - 1) % (inner - 1))]

\* a right cell that does not receive the flux of its face
cellKept(cell, r_dt_h, flux) == cell

\* a cell of Q' after Q_new[idx + k] += r_dt_h * flux[k], k = 0..3
cellPlus(cell, r_dt_h, flux) ==
  [k \in 1 .. 4 |-> fround(FAdd(cell[k], FMul(r_dt_h, flux[k])))]

\* a cell of Q' after Q_new[idx + k] -= r_dt_h * flux[k], k = 0..3
cellMinus(cell, r_dt_h, flux) ==
  [k \in 1 .. 4 |-> fround(FSub(cell[k], FMul(r_dt_h, flux[k])))]

\* an X-sweep that adds Q to the Q' it finds instead of seeding Q' from Q
sweepXCellAdded(c, r_dt_h) ==
  LET i == c % nx
      j == c \div nx
      seeded == [k \in 1 .. 4 |-> fround(FAdd(Q_new[c][k], Q[c][k]))]
      got == IF i > 0
             THEN cellPlus(seeded, r_dt_h,
                           roeFlux1D((j * nx + i - 1) * 4, (j * nx + i) * 4, One, Zero))
             ELSE seeded
  IN IF i < nx - 1
     THEN cellMinus(got, r_dt_h,
                    roeFlux1D((j * nx + i) * 4, (j * nx + i + 1) * 4, One, Zero))
     ELSE got

\* cell c of Q' after the X-sweep: seeded from Q
sweepXCell(c, r_dt_h) ==
  LET i == c % nx
      j == c \div nx
      seeded == Q[c]
      got == IF i > 0
             THEN cellPlus(seeded, r_dt_h,
                           roeFlux1D((j * nx + i - 1) * 4, (j * nx + i) * 4, One, Zero))
             ELSE seeded
  IN IF i < nx - 1
     THEN cellMinus(got, r_dt_h,
                    roeFlux1D((j * nx + i) * 4, (j * nx + i + 1) * 4, One, Zero))
     ELSE got

\* a Y-sweep that seeds Q' from Q again
sweepYCellReseeded(q, c, r_dt_h) ==
  LET j == c % nx
      i == c \div nx
      got == IF i > 0
             THEN cellPlus(Q[c], r_dt_h,
                           roeFlux1D(((i - 1) * nx + j) * 4, (i * nx + j) * 4, Zero, One))
             ELSE Q[c]
  IN IF i < ny - 1
     THEN cellMinus(got, r_dt_h,
                    roeFlux1D((i * nx + j) * 4, ((i + 1) * nx + j) * 4, Zero, One))
     ELSE got

\* cell c of Q' after the Y-sweep: continues from the Q' of the X-sweep.
\* The source's loop variables are swapped here: j runs over columns and
\* i over rows.
sweepYCell(q, c, r_dt_h) ==
  LET j == c % nx
      i == c \div nx
      got == IF i > 0
             THEN cellPlus(q[c], r_dt_h,
                           roeFlux1D(((i - 1) * nx + j) * 4, (i * nx + j) * 4, Zero, One))
             ELSE q[c]
  IN IF i < ny - 1
     THEN cellMinus(got, r_dt_h,
                    roeFlux1D((i * nx + j) * 4, ((i + 1) * nx + j) * 4, Zero, One))
     ELSE got

(***************************************************************************)
(* calculateTimeStep(cfl)                                                  *)
(***************************************************************************)
\* the speed of cell i: |velocity| + sound speed
cellSpeed(i) ==
  LET idx == i * 4
      r == FMax(KernelRhoFloor, Rd(Q, idx))
      invR == FDiv(One, r)
      u == FMul(Rd(Q, idx + 1), invR)
      v == FMul(Rd(Q, idx + 2), invR)
      p == getPressure(r, Rd(Q, idx + 1), Rd(Q, idx + 2), Rd(Q, idx + 3))
      c == FSqrt(FMul(FMul(GAMMA, p), invR))
  IN FAdd(FSqrt(FAdd(FMul(u, u), FMul(v, v))), c)

\* maxSpeed after the loop: it starts at 0 and "speed > maxSpeed" replaces
\* it, so it is the largest of 0 and the speeds that are not NaN
scanSpeed ==
  SetMax({Zero} \cup {sp \in {cellSpeed(i) : i \in Cells} : ~isNaN(sp)})

\* calculateTimeStep taking the speed of the first cell for the maximum
calculateTimeStepFirstCell(cfl) ==
  LET maxSpeed == FMax(MaxSpeedFloor, cellSpeed(0))
      calculatedDt == FDiv(FMul(cfl, FMin(dx, dy)), maxSpeed)
  IN FMin(calculatedDt, DtCap)

calculateTimeStep(cfl) ==
  LET maxSpeed == FMax(MaxSpeedFloor, scanSpeed)
      calculatedDt == FDiv(FMul(cfl, FMin(dx, dy)), maxSpeed)
  IN FMin(calculatedDt, DtCap)

(***************************************************************************)
(* fixPositivityAndCheckStability(): repairs Q' cell by cell and returns   *)
(* false at the first cell it finds unstable, leaving the later cells as   *)
(* they were.                                                              *)
(***************************************************************************)
\* r after the density floor
flooredRho(cell) == IF FLt(cell[1], minRho) THEN minRho ELSE cell[1]

\* the cell after the density floor
flooredCell(cell) ==
  IF FLt(cell[1], minRho) THEN <<fround(minRho), Zero, Zero, cell[4]>> ELSE cell

\* the velocity check of the source: isNaN(u) || isNaN(v)
velocityBad(u, v) == isNaN(u) \/ isNaN(v)

\* the cell makes the function return false
cellUnstable(cell) ==
  LET r == cell[1]
      E == cell[4]
  IN \/ isNaN(r) \/ ~isFinite(r)
     \/ isNaN(E) \/ ~isFinite(E)
     \/ LET f == flooredCell(cell)
            rr == flooredRho(cell)
        IN velocityBad(FDiv(f[2], rr), FDiv(f[3], rr))

\* the cell after both floors (for a cell that is not unstable)
repairedCell(cell) ==
  LET f == flooredCell(cell)
      r == flooredRho(cell)
      E == cell[4]
      u == FDiv(f[2], r)
      v == FDiv(f[3], r)
      kinE == FMul(FMul(Half, r), FAdd(FMul(u, u), FMul(v, v)))
      p == FMul(GammaM1, FSub(E, kinE))
  IN IF isNaN(p) \/ FLt(p, minP)
     THEN <<f[1], f[2], f[3], fround(FAdd(FDiv(minP, GammaM1), kinE))>>
     ELSE f

\* the first unstable cell of q, nx*ny when there is none
firstUnstable(q) ==
  SetMin({nx * ny} \cup {i \in Cells : cellUnstable(q[i])})

\* Q' after the function ran on q
fixedField(q) ==
  LET bad == firstUnstable(q)
  IN [c \in Cells |-> IF c < bad THEN repairedCell(q[c]) ELSE q[c]]

\* the value the function returns on q
fixReturns(q) == firstUnstable(q) = nx * ny

(***************************************************************************)
(* getScalarField(mode)                                                    *)
(***************************************************************************)
\* val of cell i
scalarValue(mode, i) ==
  LET idx == i * 4
      rho == Rd(Q, idx)
      u == FDiv(Rd(Q, idx + 1), FAdd(rho, eps))
      v == FDiv(Rd(Q, idx + 2), FAdd(rho, eps))
      E == Rd(Q, idx + 3)
      p == getPressure(rho, Rd(Q, idx + 1), Rd(Q, idx + 2), E)
      speed == FSqrt(FAdd(FMul(u, u), FMul(v, v)))
  IN CASE mode = "density" -> rho
       [] mode = "pressure" -> p
       [] mode = "velocity" -> speed
       [] mode = "temperature" -> FDiv(p, FMul(rho, R_GAS))
       [] mode = "mach" ->
            LET c == FSqrt(FDiv(FMul(GAMMA, p), FAdd(rho, eps)))
            IN FDiv(speed, FAdd(c, eps))
       [] mode = "schlieren" ->
            LET col == i % nx
                row == i \div nx
                drdx == IF col > 0 /\ col < nx - 1
                        THEN FDiv(FSub(Rd(Q, idx + 4), Rd(Q, idx - 4)),
                                  FMul(Two, dx))
                        ELSE Zero
                drdy == IF row > 0 /\ row < ny - 1
                        THEN FDiv(FSub(Rd(Q, ((row + 1) * nx + col) * 4),
                                       Rd(Q, ((row - 1) * nx + col) * 4)),
                                  FMul(Two, dy))
                        ELSE Zero
                grad == FSqrt(FAdd(FMul(drdx, drdx), FMul(drdy, drdy)))
            IN FLog(FAdd(One, FMul(SchlierenGain, grad)))
       [] OTHER -> Zero

\* min and max after the loop: they start at Number.MAX_VALUE and its
\* negative, and "val < min", "val > max" replace them, so a NaN val
\* replaces neither
scanMin(mode) ==
  SetMin({DMAX} \cup {val \in {scalarValue(mode, i) : i \in Cells} : ~isNaN(val)})

scanMax(mode) ==
  SetMax({0 - DMAX}
         \cup {val \in {scalarValue(mode, i) : i \in Cells} : ~isNaN(val)})

\* what getScalarField(mode) returns; data[i] is element i + 1
getScalarField(mode) ==
  [status |-> "ok",
   data |-> [i \in 1 .. nx * ny |-> fround(scalarValue(mode, i - 1))],
   min |-> scanMin(mode),
   max |-> scanMax(mode)]

\* a view that uses Q' as its scratch buffer
ScalarFieldScratch(mode) ==
  /\ pc = "idle"
  /\ call' = [op |-> "scalar_field", args |-> <<mode>>]
  /\ ret' = getScalarField(mode)
  /\ viewRep' = IF call.op = "scalar_field" /\ call.args = <<mode>> THEN 2 ELSE 1
  /\ Q_new' = Q
  /\ UNCHANGED <<nx, ny, Q, t, inletState, ambientState, pc, dt,
                 isStable, tPre, boundary, steps>>
  /\ UNCHANGED driverVars
  /\ UNCHANGED first

\* getScalarField(mode), called between steps
ScalarField(mode) ==
  /\ pc = "idle"
  /\ call' = [op |-> "scalar_field", args |-> <<mode>>]
  /\ ret' = getScalarField(mode)
  /\ viewRep' = IF call.op = "scalar_field" /\ call.args = <<mode>> THEN 2 ELSE 1
  /\ UNCHANGED <<nx, ny, Q, Q_new, t, inletState, ambientState, pc, dt,
                 isStable, tPre, boundary, steps>>
  /\ UNCHANGED driverVars
  /\ UNCHANGED first

(***************************************************************************)
(* step(cfl), one action per phase; no other operation runs while a step   *)
(* is in flight (the solver is called from a single thread).               *)
(***************************************************************************)
\* step(cfl) is entered: lines 103-104
stepEnter(cfl) ==
  /\ pc = "idle"
  /\ steps' = steps + 1
  /\ dt' = calculateTimeStep(cfl)
  /\ t' = FAdd(t, calculateTimeStep(cfl))
  /\ tPre' = t
  /\ call' = [op |-> "step", args |-> <<cfl>>]
  /\ ret' = Running
  /\ viewRep' = 0
  /\ pc' = "xsweep"
  /\ first' = IF first.rec /\ steps = 0
              THEN [rec |-> TRUE, pre |-> <<Q, cfl, inletState, ambientState>>,
                    stale |-> Q_new, t |-> t, out |-> <<>>]
              ELSE first
  /\ UNCHANGED <<nx, ny, Q, Q_new, inletState, ambientState, isStable, boundary>>

\* step(cfl), called on the solver directly
StepBegin(cfl) ==
  /\ steps < MaxSteps
  /\ stepEnter(cfl)
  /\ UNCHANGED driverVars

\* an X-sweep that updates Q in place
StepSweepXInPlace ==
  /\ pc = "xsweep"
  /\ Q_new' = [c \in Cells |-> sweepXCell(c, FDiv(dt, dx))]
  /\ Q' = Q_new'
  /\ pc' = "ysweep"
  /\ UNCHANGED <<nx, ny, t, inletState, ambientState, dt, isStable, tPre,
                 call, ret, boundary, viewRep, steps>>
  /\ UNCHANGED driverVars
  /\ UNCHANGED first

StepSweepX ==
  /\ pc = "xsweep"
  /\ Q_new' = [c \in Cells |-> sweepXCell(c, FDiv(dt, dx))]
  /\ pc' = "ysweep"
  /\ UNCHANGED <<nx, ny, Q, t, inletState, ambientState, dt, isStable, tPre,
                 call, ret, boundary, viewRep, steps>>
  /\ UNCHANGED driverVars
  /\ UNCHANGED first

StepSweepY ==
  /\ pc = "ysweep"
  /\ Q_new' = [c \in Cells |-> sweepYCell(Q_new, c, FDiv(dt, dy))]
  /\ pc' = "boundary"
  /\ UNCHANGED <<nx, ny, Q, t, inletState, ambientState, dt, isStable, tPre,
                 call, ret, boundary, viewRep, steps>>
  /\ UNCHANGED driverVars
  /\ UNCHANGED first

StepBoundary ==
  /\ pc = "boundary"
  /\ Q_new' = applyBoundaryConditions(Q_new)
  /\ pc' = "fix"
  /\ UNCHANGED <<nx, ny, Q, t, inletState, ambientState, dt, isStable, tPre,
                 call, ret, boundary, viewRep, steps>>
  /\ UNCHANGED driverVars
  /\ UNCHANGED first

StepFix ==
  /\ pc = "fix"
  /\ Q_new' = fixedField(Q_new)
  /\ isStable' = fixReturns(Q_new)
  /\ pc' = "commit"
  /\ UNCHANGED <<nx, ny, Q, t, inletState, ambientState, dt, tPre, call, ret,
                 boundary, viewRep, steps>>
  /\ UNCHANGED driverVars
  /\ UNCHANGED first

\* if (isStable) Q.set(Q_new)
StepCommit ==
  /\ pc = "commit"
  /\ isStable
  /\ Q' = Q_new
  /\ pc' = "idle"
  /\ ret' = Returned
  /\ UNCHANGED <<nx, ny, Q_new, t, inletState, ambientState, dt, isStable,
                 tPre, call, boundary, viewRep, steps>>
  /\ UNCHANGED driverVars
  /\ first' = IF first.rec /\ steps = 1
              THEN [first EXCEPT !.out = <<Q', isStable>>]
              ELSE first

\* else this.reset()
StepRollback ==
  /\ pc = "commit"
  /\ ~isStable
  /\ t' = resetT
  /\ Q' = initializeField(Q)
  /\ Q_new' = applyBoundaryConditions(Q_new)
  /\ pc' = "idle"
  /\ ret' = Returned
  /\ UNCHANGED <<nx, ny, inletState, ambientState, dt, isStable, tPre, call,
                 boundary, viewRep, steps>>
  /\ UNCHANGED driverVars
  /\ first' = IF first.rec /\ steps = 1
              THEN [first EXCEPT !.out = <<Q', isStable>>]
              ELSE first

Next ==
  \/ \E a \in Params : UpdateBoundary(a)
  \/ Reset
  \/ \E cfl \in Cfls : StepBegin(cfl)
  \/ StepSweepX
  \/ StepSweepY
  \/ StepBoundary
  \/ StepFix
  \/ StepCommit
  \/ StepRollback

Spec == Init /\ [][Next]_vars

(***************************************************************************)
(* The solver with its view: the operations above and getScalarField, on   *)
(* the 4 x 4 grid with the driver's cfl.                                   *)
(***************************************************************************)
InitView == Init /\ nx = 4 /\ ny = 4

NextView ==
  \/ \E a \in {ParamsDefault, ParamsDense} : UpdateBoundary(a)
  \/ Reset
  \/ StepBegin(500)
  \/ StepSweepX
  \/ StepSweepY
  \/ StepBoundary
  \/ StepFix
  \/ StepCommit
  \/ StepRollback
  \/ \E mode \in Modes : ScalarField(mode)

SpecView == InitView /\ [][NextView]_vars

(***************************************************************************)
(* The useFluidSolver hook: mount, the resetSolver handler and the animate *)
(* callback of each animation frame, which runs step() on the solver.      *)
(***************************************************************************)
\* DEFAULT_PARAMS.cfl
DriverCfl == 500

maxStepsPerFrame == 10

\* the visualization mode on display
DriverMode == "schlieren"

\* the first effect: new FluidSolver, updateBoundaryConditions(params),
\* drawFrame()
Mount ==
  /\ dpc = "unmounted"
  /\ call.op = "construct"
  /\ <<nx, ny>> = DriverDims
  /\ inletState' = inletOf(ParamsDefault[1], ParamsDefault[2], ParamsDefault[3])
  /\ ambientState' = ambientOf(ParamsDefault[4])
  /\ boundary' = ParamsDefault
  /\ call' = [op |-> "scalar_field", args |-> <<DriverMode>>]
  /\ ret' = getScalarField(DriverMode)
  /\ viewRep' = 1
  /\ dpc' = "wait"
  /\ UNCHANGED <<nx, ny, Q, Q_new, t, pc, dt, isStable, tPre, steps,
                 stepsAccumulator, stepsToRun, stepIndex, solverTime, frame,
                 frames>>
  /\ UNCHANGED first

\* an animate() that caps the steps of a frame but keeps the remainder
FrameBeginCarry(speed) ==
  /\ dpc = "wait"
  /\ frames < MaxFrames
  /\ LET acc == FAdd(stepsAccumulator, speed)
         floorAcc == acc \div SC
     IN /\ stepsToRun' = IF floorAcc > maxStepsPerFrame THEN maxStepsPerFrame
                         ELSE floorAcc
        /\ stepsAccumulator' = FSub(acc, floorAcc * SC)
  /\ stepIndex' = 0
  /\ frame' = [acc |-> stepsAccumulator, speed |-> speed, steps |-> steps,
               done |-> FALSE, sum |-> frame.sum + speed,
               base |-> frame.base, ui |-> frame.ui /\ speed \in UISpeeds]
  /\ dpc' = "loop"
  /\ UNCHANGED <<solverVars, solverTime, frames>>
  /\ UNCHANGED first

\* an animate() that drops what is left in the accumulator after the floor
FrameBeginDrop(speed) ==
  /\ dpc = "wait"
  /\ frames < MaxFrames
  /\ LET acc == FAdd(stepsAccumulator, speed)
         floorAcc == acc \div SC
     IN /\ stepsToRun' = IF floorAcc > maxStepsPerFrame THEN maxStepsPerFrame
                         ELSE floorAcc
        /\ stepsAccumulator' = IF floorAcc > 0 THEN Zero ELSE acc
  /\ stepIndex' = 0
  /\ frame' = [acc |-> stepsAccumulator, speed |-> speed, steps |-> steps,
               done |-> FALSE, sum |-> frame.sum + speed,
               base |-> frame.base, ui |-> frame.ui /\ speed \in UISpeeds]
  /\ dpc' = "loop"
  /\ UNCHANGED <<solverVars, solverTime, frames>>
  /\ UNCHANGED first

\* animate(), up to the step loop: lines 137-152
FrameBegin(speed) ==
  /\ dpc = "wait"
  /\ frames < MaxFrames
  /\ LET acc == FAdd(stepsAccumulator, speed)
         floorAcc == acc \div SC
         rest == IF floorAcc > 0 THEN FSub(acc, floorAcc * SC) ELSE acc
     IN /\ stepsToRun' = IF floorAcc > maxStepsPerFrame THEN maxStepsPerFrame
                         ELSE floorAcc
        /\ stepsAccumulator' = IF floorAcc > maxStepsPerFrame THEN Zero ELSE rest
  /\ stepIndex' = 0
  /\ frame' = [acc |-> stepsAccumulator, speed |-> speed, steps |-> steps,
               done |-> FALSE, sum |-> frame.sum + speed,
               base |-> frame.base, ui |-> frame.ui /\ speed \in UISpeeds]
  /\ dpc' = "loop"
  /\ UNCHANGED <<solverVars, solverTime, frames>>
  /\ UNCHANGED first

\* one pass of the step loop enters solver.step(params.cfl): lines 155-157
FrameStep ==
  /\ dpc = "loop"
  /\ stepIndex < stepsToRun
  /\ stepEnter(DriverCfl)
  /\ stepIndex' = stepIndex + 1
  /\ UNCHANGED <<dpc, stepsAccumulator, stepsToRun, solverTime, frame, frames>>

\* past the loop: setSolverTime(solver.t); drawFrame()
FrameEnd ==
  /\ dpc = "loop"
  /\ pc = "idle"
  /\ ~(stepIndex < stepsToRun)
  /\ solverTime' = t
  /\ call' = [op |-> "scalar_field", args |-> <<DriverMode>>]
  /\ ret' = getScalarField(DriverMode)
  /\ viewRep' = IF call.op = "scalar_field" /\ call.args = <<DriverMode>>
                THEN 2 ELSE 1
  /\ frame' = [frame EXCEPT !.done = TRUE]
  /\ frames' = frames + 1
  /\ dpc' = "wait"
  /\ UNCHANGED <<nx, ny, Q, Q_new, t, inletState, ambientState, pc, dt,
                 isStable, tPre, boundary, steps, stepsAccumulator,
                 stepsToRun, stepIndex>>
  /\ UNCHANGED first

\* resetSolver(), up to its drawFrame(): solver.reset(),
\* updateBoundaryConditions(params), setSolverTime(0), accumulator = 0
DriverReset ==
  /\ dpc = "wait"
  /\ t' = resetT
  /\ Q' = initializeField(Q)
  /\ Q_new' = applyBoundaryConditions(Q_new)
  /\ inletState' = inletOf(ParamsDefault[1], ParamsDefault[2], ParamsDefault[3])
  /\ ambientState' = ambientOf(ParamsDefault[4])
  /\ boundary' = ParamsDefault
  /\ call' = [op |-> "update_boundary", args |-> ParamsDefault]
  /\ ret' = Returned
  /\ viewRep' = 0
  /\ solverTime' = Zero
  /\ stepsAccumulator' = Zero
  /\ frame' = [frame EXCEPT !.done = FALSE, !.sum = Zero, !.base = steps,
                            !.ui = TRUE]
  /\ dpc' = "draw"
  /\ UNCHANGED <<nx, ny, pc, dt, isStable, tPre, steps, stepsToRun,
                 stepIndex, frames>>
  /\ UNCHANGED first

\* the drawFrame() that ends resetSolver()
DriverDraw ==
  /\ dpc = "draw"
  /\ call' = [op |-> "scalar_field", args |-> <<DriverMode>>]
  /\ ret' = getScalarField(DriverMode)
  /\ viewRep' = 1
  /\ dpc' = "wait"
  /\ UNCHANGED <<nx, ny, Q, Q_new, t, inletState, ambientState, pc, dt,
                 isStable, tPre, boundary, steps, stepsAccumulator,
                 stepsToRun, stepIndex, solverTime, frame, frames>>
  /\ UNCHANGED first

InitDriver == Init /\ <<nx, ny>> = DriverDims

NextDriver ==
  \/ Mount
  \/ \E speed \in Speeds : FrameBegin(speed)
  \/ FrameStep
  \/ StepSweepX
  \/ StepSweepY
  \/ StepBoundary
  \/ StepFix
  \/ StepCommit
  \/ StepRollback
  \/ FrameEnd
  \/ DriverReset
  \/ DriverDraw

SpecDriver == InitDriver /\ [][NextDriver]_vars

(***************************************************************************)
(* The solver on the 4 x 4 grid with its first step() recorded, to compare *)
(* a later step() entered with the same inputs.                            *)
(***************************************************************************)
InitTwice ==
  /\ Construct
  /\ <<nx, ny>> = <<4, 4>>
  /\ first = [NoFirst EXCEPT !.rec = TRUE]

NextTwice ==
  \/ \E a \in ParamsTwice : UpdateBoundary(a)
  \/ Reset
  \/ \E cfl \in Cfls : StepBegin(cfl)
  \/ StepSweepX
  \/ StepSweepY
  \/ StepBoundary
  \/ StepFix
  \/ StepCommit
  \/ StepRollback

SpecTwice == InitTwice /\ [][NextTwice]_vars

(***************************************************************************)
(* roeFlux1D on its own: one face between the two cells of a 2 x 1 grid,   *)
(* the cells drawn from FluxCells, the kernel called once with either      *)
(* face normal.                                                            *)
(***************************************************************************)

\* cell values a committed or reset Q holds: the default ambient cell and
\* the default Mach 2 inlet cell; that inlet cell moving along y, moving
\* backwards and moving obliquely; the zero cell of a fresh buffer; an
\* ambient cell whose energy overflowed the float32 store; a cell
\* committed with an overflowed momentum and energy
CellAmbient == conservative(ambientOf(ParamsDefault[4]))
CellInlet ==
  conservative(inletOf(ParamsDefault[1], ParamsDefault[2], ParamsDefault[3]))
CellCross == <<CellInlet[1], Zero, CellInlet[2], CellInlet[4]>>
CellBack == <<CellInlet[1], FNeg(CellInlet[2]), Zero, CellInlet[4]>>
CellOblique ==
  <<CellInlet[1], CellInlet[2], FNeg(CellInlet[2] \div 2), CellInlet[4]>>
CellZero == <<Zero, Zero, Zero, Zero>>
CellHot == <<CellAmbient[1], Zero, Zero, PInf>>
CellOverflowed == <<CellInlet[1], PInf, Zero, PInf>>
FluxCells == {CellAmbient, CellInlet, CellCross, CellBack, CellOblique,
              CellZero, CellHot, CellOverflowed}

InitFlux ==
  /\ nx = 2
  /\ ny = 1
  /\ Q \in [0 .. 1 -> FluxCells]
  /\ Q_new = zeroField(2)
  /\ call = [op |-> "construct", args |-> <<2, 1>>]
  /\ t = Zero
  /\ inletState = [rho |-> CtorInletRho, u |-> Zero, v |-> Zero,
                   p |-> CtorPressure, E |-> Zero]
  /\ ambientState = [rho |-> CtorAmbientRho, u |-> Zero, v |-> Zero,
                     p |-> CtorPressure, E |-> Zero]
  /\ pc = "idle"
  /\ dt = Zero
  /\ isStable = TRUE
  /\ tPre = Zero
  /\ ret = Returned
  /\ boundary = <<>>
  /\ viewRep = 0
  /\ steps = 0
  /\ dpc = "unmounted"
  /\ stepsAccumulator = Zero
  /\ stepsToRun = 0
  /\ stepIndex = 0
  /\ solverTime = Zero
  /\ frame = [acc |-> Zero, speed |-> Zero, steps |-> 0, done |-> FALSE,
              sum |-> Zero, base |-> 0, ui |-> TRUE]
  /\ frames = 0
  /\ first = NoFirst

\* roeFlux1D(0, 4, nX, nY): the flux across the face between the two cells
RoeFlux(nX, nY) ==
  /\ pc = "idle"
  /\ call.op = "construct"
  /\ call' = [op |-> "roeFlux1D", args |-> <<0, 4, nX, nY>>]
  /\ ret' = [Returned EXCEPT !.data = roeFlux1D(0, 4, nX, nY)]
  /\ UNCHANGED <<nx, ny, Q, Q_new, t, inletState, ambientState, pc, dt,
                 isStable, tPre, boundary, viewRep, steps>>
  /\ UNCHANGED driverVars
  /\ UNCHANGED first

NextFlux ==
  \/ RoeFlux(One, Zero)
  \/ RoeFlux(Zero, One)

SpecFlux == InitFlux /\ [][NextFlux]_vars

(***************************************************************************)
(* calculateTimeStep on its own: the 2 x 1 grid with cells drawn from      *)
(* FluxCells, the routine called once with a Courant number.               *)
(***************************************************************************)
\* Courant numbers in (0, 1]
CflsUnit == {100, 500, 1000}

TimeStep(cfl) ==
  /\ pc = "idle"
  /\ call.op = "construct"
  /\ call' = [op |-> "calculateTimeStep", args |-> <<cfl>>]
  /\ dt' = calculateTimeStep(cfl)
  /\ ret' = Returned
  /\ UNCHANGED <<nx, ny, Q, Q_new, t, inletState, ambientState, pc,
                 isStable, tPre, boundary, viewRep, steps>>
  /\ UNCHANGED driverVars
  /\ UNCHANGED first

NextTimeStep == \E cfl \in CflsUnit : TimeStep(cfl)

SpecTimeStep == InitFlux /\ [][NextTimeStep]_vars

(***************************************************************************)
(* Properties.                                                             *)
(***************************************************************************)
\* a step() has returned
AfterStep == pc = "idle" /\ call.op = "step"
\* ... after copying Q' into Q
Committed == AfterStep /\ isStable
\* ... after its stability check failed
RolledBack == AfterStep /\ ~isStable
\* a reset() has returned
AfterReset == pc = "idle" /\ call.op = "reset"

\* a >= b: false when either is NaN
FGe(a, b) == ~isNaN(a) /\ ~isNaN(b) /\ a >= b

\* the pressure (gamma-1)*(rhoE - 0.5*(rhou^2+rhov^2)/rho) of a cell
cellPressure(cell) ==
  FMul(GammaM1,
       FSub(cell[4],
            FDiv(FMul(Half, FAdd(FMul(cell[2], cell[2]), FMul(cell[3], cell[3]))),
                 cell[1])))

\* the conservative tuple (rho, 0, 0, E) of the cached ambientState
ambientTuple == <<fround(ambientState.rho), Zero, Zero, fround(ambientState.E)>>

\* C1: after every committed step(), every cell of Q has density >= 0.05
\* and pressure (gamma-1)*(rhoE - 0.5*(rhou^2+rhov^2)/rho) >= 100.
C1_CommittedFloors ==
  Committed =>
    \A c \in Cells : FGe(Q[c][1], minRho) /\ FGe(cellPressure(Q[c]), minP)

\* C2: after every committed step(), no component of any cell of Q is NaN
\* or an infinity.
C2_CommittedFinite ==
  Committed => \A c \in Cells : \A k \in 1 .. 4 : isFinite(Q[c][k])

\* C3: after a step() that was rolled back, t is t before the step plus the
\* step's dt, and strictly greater than before the step.
C3_ClockPreserved ==
  RolledBack => t = FAdd(tPre, dt) /\ FGt(t, tPre)

\* C4: after a step() whose stability check failed, every cell of Q is the
\* ambient tuple (rho_amb, 0, 0, E_amb) of the cached ambientState, whatever
\* Q' holds, and step() has returned normally.
C4_RollbackAmbient ==
  RolledBack => (\A c \in Cells : Q[c] = ambientTuple) /\ ret = Returned

\* a rollback that left a Q' with a NaN in it, after a committed step
C4_Witness ==
  /\ RolledBack
  /\ steps = 2
  /\ \E c \in Cells : \E k \in 1 .. 4 : isNaN(Q_new[c][k])

\* C5: right after the constructor, t = 0 and every cell of Q holds the
\* default ambient state (rho = 1.225, zero momentum, the energy of
\* p = 101325).
C5_ConstructAmbient ==
  call.op = "construct" =>
    /\ t = Zero
    /\ \A c \in Cells :
         Q[c] = <<fround(CtorAmbientRho), Zero, Zero,
                  fround(computeEnergy(CtorAmbientRho, Zero, Zero, CtorPressure))>>

\* C6 (as stated): after step() calls followed by reset(), Q and t are those
\* of a fresh solver to which only updateBoundaryConditions with the same
\* arguments was applied: the zero-filled Q of the constructor and t = 0.
C6_ResetEqualsFreshUpdate ==
  (AfterReset /\ boundary # <<>>) => Q = zeroField(nx * ny) /\ t = Zero

\* C6 (amended): after step() calls followed by reset(), Q and t are those
\* of a fresh solver to which updateBoundaryConditions with the same
\* arguments and then reset() were applied: every cell of Q is the ambient
\* tuple computed from the pAmb argument, and t = 0.
C6_ResetEqualsFreshUpdateReset ==
  (AfterReset /\ boundary # <<>>) =>
    /\ Q = [c \in Cells |-> conservative(ambientOf(boundary[4]))]
    /\ t = Zero

\* a reset() after two steps, the second one committed, under the
\* arguments of the last updateBoundaryConditions
C6_Witness ==
  AfterReset /\ boundary # <<>> /\ steps = 2 /\ isStable /\ FGt(dt, Zero)

\* C7: after reset(), t = 0 and every cell of Q, the inlet aperture and the
\* wall cells of the left column included, is the ambient tuple of the
\* cached ambientState: the boundary imprint of reset() went to Q' only.
C7_ResetState ==
  AfterReset => t = Zero /\ \A c \in Cells : Q[c] = ambientTuple

\* a reset() that imprinted an inlet differing from ambient on the aperture
\* of Q'
C7_Witness ==
  /\ AfterReset
  /\ conservative(inletState) # ambientTuple
  /\ \E j \in 0 .. (ny - 1) :
       InAperture(j) /\ Q_new[j * nx] = conservative(inletState)

\* C8: reset() is idempotent: in the state a reset() left, the Q, Q' and t
\* that one more reset() assigns are the ones already there (reset() does
\* not assign the cached boundary states).
C8_ResetIdempotent ==
  AfterReset =>
    /\ initializeField(Q) = Q
    /\ applyBoundaryConditions(Q_new) = Q_new
    /\ resetT = t

\* a reset() after a step, with a Q' that differs from Q away from the
\* inlet column
C8_Witness ==
  /\ AfterReset
  /\ steps > 0
  /\ \E c \in Cells : c % nx # 0 /\ Q_new[c] # Q[c]

\* C9: getScalarField is read-only and deterministic: a call leaves Q, Q',
\* t and both cached boundary states unchanged, and the second of two
\* consecutive calls with the same mode returns the data, min and max of
\* the first.
C9_ScalarFieldPure ==
  [][call'.op = "scalar_field" =>
       /\ UNCHANGED <<Q, Q_new, t, inletState, ambientState>>
       /\ viewRep' = 2 =>
            /\ ret'.data = ret.data
            /\ ret'.min = ret.min
            /\ ret'.max = ret.max]_vars

\* a second consecutive call with the same mode, on the field a committed
\* step left, which is not uniform
C9_Witness ==
  /\ call.op = "scalar_field"
  /\ viewRep = 2
  /\ steps > 0
  /\ isStable
  /\ ret.min < ret.max

\* the documented precondition of updateBoundaryConditions
ValidParams(a) == a[1] > 0 /\ a[2] > 0 /\ a[3] >= 0 /\ a[4] > 0

\* C10: a call of updateBoundaryConditions with a non-positive pt, tt or
\* pAmb or a negative Mach fails and leaves Q, t, inletState and
\* ambientState as they were.
C10_InvalidRejected ==
  [][(call'.op = "update_boundary" /\ ~ValidParams(call'.args)) =>
       /\ ret'.status = "failed"
       /\ UNCHANGED <<Q, t, inletState, ambientState>>]_vars

\* C11: within a step() the phases follow each other in the order of the
\* source: dt and the advance of t, the X-sweep, the Y-sweep, the boundary
\* imprint, the positivity repair with the stability check, and last the
\* commit or the rollback; Q is written by that last phase only.
C11_PhaseOrder ==
  [][/\ (pc = "idle" /\ pc' # "idle") =>
          pc' = "xsweep" /\ t' = FAdd(t, dt') /\ Q' = Q /\ Q_new' = Q_new
     /\ pc = "xsweep" => pc' = "ysweep" /\ Q' = Q /\ t' = t
     /\ pc = "ysweep" => pc' = "boundary" /\ Q' = Q /\ t' = t
     /\ pc = "boundary" => pc' = "fix" /\ Q' = Q /\ t' = t
     /\ pc = "fix" => pc' = "commit" /\ Q' = Q /\ t' = t
     /\ pc = "commit" =>
          /\ pc' = "idle"
          /\ Q' = IF isStable THEN Q_new ELSE initializeField(Q)]_vars

\* a second step() about to commit a tentative field that differs from Q
C11_Witness ==
  /\ pc = "commit"
  /\ steps = 2
  /\ isStable
  /\ Q_new # Q

\* the sum of component k over the first n cells of q
RECURSIVE SumTo(_, _, _)
SumTo(q, k, n) == IF n = 0 THEN 0 ELSE q[n - 1][k] + SumTo(q, k, n - 1)

\* every component of q is finite and small enough for the sums to be exact
Summable(q) ==
  \A c \in Cells : \A k \in 1 .. 4 :
    isFinite(q[c][k]) /\ AbsI(q[c][k]) <= F32MAX \div 2

\* C12: the two sweeps are conservative: in exact arithmetic, for each of the
\* four components the sum over all cells of Q' after the X- and the Y-sweep,
\* before the boundary imprint, is the sum over all cells of Q.
C12_SweepsConservative ==
  (pc = "boundary" /\ Summable(Q) /\ Summable(Q_new)) =>
    \A k \in 1 .. 4 : SumTo(Q_new, k, nx * ny) = SumTo(Q, k, nx * ny)

\* both sweeps of a second step() have run and changed a cell off the border
C12_Witness ==
  /\ pc = "boundary"
  /\ steps = 2
  /\ Summable(Q)
  /\ Summable(Q_new)
  /\ \E c \in Cells :
       /\ c % nx \in 1 .. (nx - 2)
       /\ c \div nx \in 1 .. (ny - 2)
       /\ Q_new[c][1] # Q[c][1]

\* the cached inlet state comes from valid arguments with a Mach number above 1
SupersonicInlet ==
  boundary # <<>> /\ ValidParams(boundary) /\ boundary[3] > One

\* row j lies within floor(ny/8) of floor(ny/2)
ApertureRow(j) == AbsI(j - ny \div 2) <= ny \div 8

\* the aperture cells of the left column of Q hold cell
ApertureHolds(cell) ==
  \A j \in 0 .. (ny - 1) : ApertureRow(j) => Q[j * nx] = cell

\* the positivity repair leaves cell as it is: its density and the pressure
\* recomputed from it are at or above the floors
AboveFloors(cell) == FGe(cell[1], minRho) /\ FGe(cellPressure(cell), minP)

\* C13: after any step(), committed or rolled back, with a supersonic inlet
\* state, every aperture cell of the left column of Q holds the inlet
\* conservative tuple.
C13_ApertureInlet ==
  (AfterStep /\ SupersonicInlet) => ApertureHolds(conservative(inletState))

\* C13 (amended): after a committed step() with a supersonic inlet state
\* whose conservative tuple is at or above the floors of the positivity
\* repair, every aperture cell of the left column of Q holds the inlet
\* conservative tuple; after a rolled-back step() these cells hold the
\* ambient tuple.
C13_ApertureInletCommitted ==
  (AfterStep /\ SupersonicInlet) =>
    IF isStable
    THEN AboveFloors(conservative(inletState)) =>
           ApertureHolds(conservative(inletState))
    ELSE ApertureHolds(ambientTuple)

\* a committed second step() with a supersonic inlet above the floors that
\* differs from ambient
C13_Witness ==
  /\ Committed
  /\ steps = 2
  /\ SupersonicInlet
  /\ AboveFloors(conservative(inletState))
  /\ conservative(inletState) # ambientTuple
  /\ ApertureHolds(conservative(inletState))

\* every cell of the bottom and the top row of Q, corners included, is cell
FarRowsHold(cell) ==
  \A c \in Cells : (c \div nx = 0 \/ c \div nx = ny - 1) => Q[c] = cell

\* C14: after any step() every cell of rows 0 and ny-1 of Q equals the
\* ambient conservative tuple of the cached ambientState.
C14_FarFieldRows == AfterStep => FarRowsHold(ambientTuple)

\* C14 (amended): after any step() every cell of rows 0 and ny-1 of Q equals
\* the ambient conservative tuple, provided that, when the step is committed,
\* the tuple is at or above the floors of the positivity repair.
C14_FarFieldRowsAboveFloors ==
  (AfterStep /\ (isStable => AboveFloors(ambientTuple))) =>
    FarRowsHold(ambientTuple)

\* a committed second step() whose field is not ambient everywhere
C14_Witness ==
  /\ Committed
  /\ steps = 2
  /\ AboveFloors(ambientTuple)
  /\ FarRowsHold(ambientTuple)
  /\ \E c \in Cells : Q[c] # ambientTuple

\* C15: after any step(), in every row the cell of column nx-1 of Q equals
\* the cell of column nx-2 in all four components (none of them NaN), the
\* far-field rows and the cells changed by the positivity repair included.
C15_OutletCopy ==
  AfterStep =>
    \A j \in 0 .. (ny - 1) :
      /\ Q[j * nx + nx - 1] = Q[j * nx + nx - 2]
      /\ \A k \in 1 .. 4 : ~isNaN(Q[j * nx + nx - 1][k])

\* a committed second step() whose outlet column holds, off the far-field
\* rows, a cell that is not ambient
C15_Witness ==
  /\ Committed
  /\ steps = 2
  /\ \E j \in 1 .. (ny - 2) :
       /\ Q[j * nx + nx - 1] # ambientTuple
       /\ Q[j * nx + nx - 1] = Q[j * nx + nx - 2]

\* the cell that the mirror j -> ny-1-j maps cell c to
Mirror(c) == (ny - 1 - c \div nx) * nx + (c % nx)

\* q is symmetric under the mirror: rho, rhou and rhoE equal, rhov negated
Symmetric(q) ==
  \A c \in Cells :
    q[Mirror(c)] = <<q[c][1], q[c][2], FNeg(q[c][3]), q[c][4]>>

\* C16: step() preserves top-bottom symmetry: a step() entered with a
\* symmetric Q leaves a symmetric Q.
C16_SymmetryPreserved ==
  [][(pc = "commit" /\ Symmetric(Q)) => Symmetric(Q')]_vars

\* an animation frame has just run to its end
AfterFrame == dpc = "wait" /\ frame.done

\* the step() calls since the frame in flight or last run was entered
FrameRan == steps - frame.steps

\* C17: in every animation frame simulationSpeed is added to the accumulator
\* and k = floor(accumulator) is removed from it; if k <= 10 exactly k step()
\* calls run and the fraction is carried, if k > 10 exactly 10 run and the
\* accumulator is set to 0; no frame runs more than 10 steps.
C17_FrameBudget ==
  /\ dpc # "unmounted" => FrameRan <= 10
  /\ AfterFrame =>
       LET acc == frame.acc + frame.speed
           k == acc \div SC
       IN IF k <= 10
          THEN FrameRan = k /\ stepsAccumulator = acc - k * SC
          ELSE FrameRan = 10 /\ stepsAccumulator = Zero

\* a frame entered with a fraction in the accumulator that ran into the cap
C17_Witness ==
  /\ AfterFrame
  /\ frame.acc > Zero
  /\ (frame.acc + frame.speed) \div SC > 10
  /\ FrameRan = 10
  /\ stepsAccumulator = Zero

\* what the outcome of the step() in flight may depend on
StepInputs == <<Q, call.args[1], inletState, ambientState>>

\* C18: a step() carries no hidden state: a step() entered with the Q, cfl,
\* inletState and ambientState of an earlier one, whatever the stale
\* contents of Q' and whatever t, leaves the same Q and takes the same
\* commit-or-rollback decision.
C18_NoHiddenState ==
  [][(pc = "commit" /\ steps > 1 /\ first.pre = StepInputs) =>
       <<Q', isStable>> = first.out]_vars

\* a second step() entered with the inputs of the first, a different stale
\* Q' and a different t
C18_Witness ==
  /\ pc = "xsweep"
  /\ steps = 2
  /\ first.pre = StepInputs
  /\ first.stale # Q_new
  /\ first.t # tPre


\* the boundary states are those of updateBoundaryConditions for M = 0
StillInlet == boundary # <<>> /\ ValidParams(boundary) /\ boundary[3] = Zero

\* 1e-3 in the units of the source, on the grid of component k: 20 steps of
\* 5e-5 kg/m^3 for the density; below one step of 2.2e-3 kg/(m^2 s) and of
\* 0.1 Pa for the momenta and the energy
tolerance(k) == IF k = 1 THEN 20 ELSE 0

InteriorCell(c) ==
  /\ c % nx \in 1 .. (nx - 2)
  /\ c \div nx \in 1 .. (ny - 2)

\* every cell off the border is within the tolerance of the ambient tuple
NearAmbient(q) ==
  \A c \in Cells : InteriorCell(c) =>
    \A k \in 1 .. 4 : /\ isFinite(q[c][k])
                      /\ AbsI(q[c][k] - ambientTuple[k]) <= tolerance(k)

\* q is the uniformly ambient field, or that field with its border imprinted
\* as a step leaves it
AtRest(q) ==
  \/ q = initializeField(q)
  \/ q = fixedField(applyBoundaryConditions(initializeField(q)))

InletIsAmbient == conservative(inletState) = conservative(ambientState)

\* C19: with the boundary states of a Mach 0 inlet, a step() entered with the
\* uniformly ambient field, or with that field as a step has imprinted its
\* border, leaves every cell off the border within 1e-3 of ambient.
C19_StillStaysAmbient ==
  [][(pc = "commit" /\ StillInlet /\ AtRest(Q)) => NearAmbient(Q')]_vars

\* C19 (amended): the same when the inlet state equals the ambient state
\* (M = 0, p_total = p_ambient, T_total = 300 K) and the ambient tuple is at
\* or above the floors of the positivity repair; the field is then left
\* exactly as it was entered or imprinted.
C19_AmbientInletStaysAmbient ==
  [][(/\ pc = "commit"
      /\ StillInlet
      /\ InletIsAmbient
      /\ AboveFloors(ambientTuple)
      /\ AtRest(Q)) => (AtRest(Q') /\ NearAmbient(Q'))]_vars

\* a second committed step() with the ambient inlet, the first one entered
\* with the uniformly ambient field
C19_Witness ==
  /\ Committed
  /\ steps = 2
  /\ StillInlet
  /\ InletIsAmbient
  /\ AboveFloors(ambientTuple)
  /\ first.out # <<>>
  /\ first.out[2]
  /\ first.pre[1] = initializeField(Q)
  /\ first.pre[3] = inletState
  /\ first.pre[4] = ambientState
  /\ AtRest(Q)


\* roeFlux1D has returned the flux of a face whose two cells hold one state
ZeroJump == call.op = "roeFlux1D" /\ Q[0] = Q[1]

\* the locals of that call
FaceLocals ==
  roeLocals(roeInputs(roePrimitives(0), roePrimitives(4),
                      call.args[3], call.args[4]))

\* the physical Euler flux of the primitives <<r, u, v, p, h>> across a face
\* of normal (nX, nY), in the grid frame
EulerFlux(w, nX, nY) ==
  LET un == FAdd(FMul(w[2], nX), FMul(w[3], nY))
      ut == FAdd(FMul(FNeg(w[2]), nY), FMul(w[3], nX))
      m == FMul(w[1], un)
      f1 == FAdd(FMul(m, un), w[4])
      f2 == FMul(m, ut)
  IN <<m,
       FSub(FMul(f1, nX), FMul(f2, nY)),
       FAdd(FMul(f1, nY), FMul(f2, nX)),
       FMul(m, w[5])>>

ZeroJumpFlux ==
  /\ \A a \in {FaceLocals.alpha1, FaceLocals.alpha2,
               FaceLocals.alpha3, FaceLocals.alpha4} : a = Zero
  /\ \A d \in {FaceLocals.d0, FaceLocals.d1,
               FaceLocals.d2, FaceLocals.d3} : d = Zero
  /\ ret.data = EulerFlux(roePrimitives(0), call.args[3], call.args[4])

\* C20: when both cells of a face hold the same state, the wave strengths
\* and the four dissipation terms are zero and the returned flux is the
\* physical Euler flux of that state, for both face normals.
C20_ZeroJumpFlux == ZeroJump => ZeroJumpFlux

\* C20 (amended): the same for a state whose four components are finite.
C20_ZeroJumpFluxFinite ==
  (ZeroJump /\ \A k \in 1 .. 4 : isFinite(Q[0][k])) => ZeroJumpFlux

\* the flux across a face of normal (0, 1) between two cells holding the
\* obliquely moving state: mass, both momenta and energy are transported
C20_Witness ==
  /\ ZeroJump
  /\ Q[0] = CellOblique
  /\ call.args[3] = Zero
  /\ call.args[4] = One
  /\ \A k \in 1 .. 4 : isFinite(ret.data[k]) /\ ret.data[k] # Zero


\* every component of every cell of q is finite
FiniteField(q) == \A c \in Cells : \A k \in 1 .. 4 : isFinite(q[c][k])

FLe(a, b) == ~isNaN(a) /\ ~isNaN(b) /\ a <= b

\* S_max: the maximum over all cells of |v| + c in Q (NaN if a speed is NaN)
SMax ==
  LET speeds == {cellSpeed(i) : i \in Cells}
  IN IF NaN \in speeds THEN NaN ELSE SetMax(speeds)

\* dt has been computed from Q: by calculateTimeStep called on its own, or
\* on entry to a step() whose sweeps have not yet run
TimeStepTaken == call.op = "calculateTimeStep" \/ pc = "xsweep"

\* dt is positive, at most 5e-5 and within the CFL bound
TimeStepBounds ==
  /\ FGt(dt, Zero)
  /\ FLe(dt, DtCap)
  /\ FLe(FMul(dt, SMax), FMul(call.args[1], FMin(dx, dy)))

AfterView == pc = "idle" /\ call.op = "scalar_field"

\* C22: for every mode, when every component of Q is finite (a cell with
\* rho = 0 included), every value getScalarField produces is finite.
C22_ScalarFinite ==
  (AfterView /\ FiniteField(Q)) =>
    \A i \in 1 .. nx * ny : isFinite(ret.data[i])


\* cell i lies on the border of the grid
BorderCell(i) ==
  \/ i % nx = 0
  \/ i % nx = nx - 1
  \/ i \div nx = 0
  \/ i \div nx = ny - 1

\* C23: in schlieren mode every cell on the border of the grid gets the
\* value log(1 + 0) = 0, whatever Q holds.
C23_SchlierenBorderZero ==
  (AfterView /\ call.args = <<"schlieren">>) =>
    \A i \in Cells : BorderCell(i) => ret.data[i + 1] = Zero


\* the cell has a NaN or infinite density or energy, or, its density being
\* at or above the floor (below it the momenta are zeroed), a NaN or
\* infinite velocity rhou/rho or rhov/rho
NonFiniteCell(cell) ==
  \/ ~isFinite(cell[1])
  \/ ~isFinite(cell[4])
  \/ /\ ~FLt(cell[1], minRho)
     /\ \/ ~isFinite(FDiv(cell[2], cell[1]))
        \/ ~isFinite(FDiv(cell[3], cell[1]))

\* C24: fixPositivityAndCheckStability returns false whenever a cell of Q'
\* has a non-finite density or energy or a non-finite velocity after the
\* density floor.
C24_NonFiniteUnstable ==
  [][(pc = "fix" /\ \E c \in Cells : NonFiniteCell(Q_new[c]))
       => ~isStable']_vars


\* roeFlux1D has returned, and the pressure it computed for its left or
\* its right cell is NaN or infinite
DegenerateFace ==
  /\ call.op = "roeFlux1D"
  /\ \/ ~isFinite(roePrimitives(call.args[1])[4])
     \/ ~isFinite(roePrimitives(call.args[2])[4])

\* C25: when the left or the right pressure seen by the kernel is
\* non-finite, the kernel returns the zero flux.
C25_DegenerateFaceZero == DegenerateFace => ret.data = <<Zero, Zero, Zero, Zero>>


\* the increment r * flux of the face between cells a and b (b = a + 1 or
\* a + nx) as computed from Q, or no increment where the grid has no face
FaceIncrement(present, a, b, nX, nY, r) ==
  IF present
  THEN LET flux == roeFlux1D(a * 4, b * 4, nX, nY)
       IN [k \in 1 .. 4 |-> FMul(r, flux[k])]
  ELSE <<0, 0, 0, 0>>

FiniteTuple(w) == \A k \in 1 .. 4 : isFinite(w[k])

\* cell `cell` of Q with the increments of its four faces applied, the
\* outgoing ones (right, up) first and the incoming ones (left, down) last;
\* NaN components when an increment is not finite
Accumulated(cell, left, right, down, up) ==
  [k \in 1 .. 4 |->
     IF FiniteTuple(left) /\ FiniteTuple(right) /\ FiniteTuple(down)
        /\ FiniteTuple(up)
     THEN (((cell[k] - up[k]) - right[k]) + down[k]) + left[k]
     ELSE NaN]

\* Q plus the sum of all face increments, at cell c
SumOfIncrements(c) ==
  Accumulated(Q[c],
    FaceIncrement(c % nx > 0, c - 1, c, One, Zero, FDiv(dt, dx)),
    FaceIncrement(c % nx < nx - 1, c, c + 1, One, Zero, FDiv(dt, dx)),
    FaceIncrement(c \div nx > 0, c - nx, c, Zero, One, FDiv(dt, dy)),
    FaceIncrement(c \div nx < ny - 1, c, c + nx, Zero, One, FDiv(dt, dy)))

\* C26: after both sweeps Q' equals Q plus the sum of the increments of all
\* faces, each computed from Q, whatever the order of the faces (in exact
\* arithmetic: for the cells of Q' whose components are finite).
C26_SweepsAccumulate ==
  pc = "boundary" =>
    \A c \in Cells : FiniteTuple(Q_new[c]) => Q_new[c] = SumOfIncrements(c)

\* both sweeps ran on a non-uniform field and changed a cell that has four
\* faces, by its X faces and by its Y faces
C26_Witness ==
  /\ pc = "boundary"
  /\ steps = 2
  /\ \E c \in Cells :
       /\ InteriorCell(c)
       /\ FiniteTuple(Q_new[c])
       /\ Q_new[c] # Q[c]
       /\ FaceIncrement(TRUE, c - 1, c, One, Zero, FDiv(dt, dx))
            # FaceIncrement(TRUE, c, c + 1, One, Zero, FDiv(dt, dx))
       /\ FaceIncrement(TRUE, c - nx, c, Zero, One, FDiv(dt, dy))
            # FaceIncrement(TRUE, c, c + nx, Zero, One, FDiv(dt, dy))


\* the calls of s are, each exactly once, the faces <<4c, 4(c + step)>> of the
\* cells c in from, and every buffer index a call uses is inside the buffer
FacesOnce(s, from, step) ==
  /\ {s[n] : n \in DOMAIN s} = {<<c * 4, (c + step) * 4>> : c \in from}
  /\ Len(s) = Cardinality(from)
  /\ \A n \in DOMAIN s : \A e \in {s[n][1], s[n][2]} :
       e >= 0 /\ e + 3 < 4 * nx * ny

\* q after one kernel call for each of the faces s[n], s[n+1], ... in turn,
\* each applied with -= to its left and += to its right cell
RECURSIVE SweepByFaces(_, _, _, _, _, _)
SweepByFaces(q, s, n, nX, nY, r) ==
  IF n > Len(s) THEN q
  ELSE LET a == s[n][1] \div 4
           b == s[n][2] \div 4
           flux == roeFlux1D(s[n][1], s[n][2], nX, nY)
       IN SweepByFaces([q EXCEPT ![a] = cellMinus(q[a], r, flux),
                                 ![b] = cellPlus(q[b], r, flux)],
                       s, n + 1, nX, nY, r)

\* C27: on a grid with nx, ny >= 2 the X-sweep is one kernel call for each
\* of the (nx-1)*ny pairs ((i,j),(i+1,j)), the Y-sweep one for each of the
\* nx*(ny-1) pairs ((i,j),(i,j+1)): none skipped, repeated or wrapped, and
\* every buffer index inside the buffer.
C27_EveryFaceOnce ==
  [][/\ (pc = "xsweep" /\ nx >= 2 /\ ny >= 2) =>
          /\ FacesOnce(computeFluxesFaces(TRUE),
                       {c \in Cells : c % nx < nx - 1}, 1)
          /\ Len(computeFluxesFaces(TRUE)) = (nx - 1) * ny
          /\ Q_new' = SweepByFaces(Q, computeFluxesFaces(TRUE), 1,
                                   One, Zero, FDiv(dt, dx))
     /\ (pc = "ysweep" /\ nx >= 2 /\ ny >= 2) =>
          /\ FacesOnce(computeFluxesFaces(FALSE),
                       {c \in Cells : c \div nx < ny - 1}, nx)
          /\ Len(computeFluxesFaces(FALSE)) = nx * (ny - 1)
          /\ Q_new' = SweepByFaces(Q_new, computeFluxesFaces(FALSE), 1,
                                   Zero, One, FDiv(dt, dy))]_vars

\* both sweeps have run on the grid of 4 columns and 5 rows
C27_Witness ==
  /\ pc = "boundary"
  /\ nx = 4
  /\ ny = 5
  /\ steps = 2
  /\ Q_new # Q


\* the cached state st carries the energy of its own rho, u, v and p
EnergyConsistent(st) == st.E = computeEnergy(st.rho, st.u, st.v, st.p)

\* C28: in every state from construction on, inletState and ambientState
\* carry E = p/(gamma-1) + 0.5*rho*(u^2+v^2), ambientState has u = v = 0 and
\* inletState has v = 0.
C28_CachedStatesConsistent ==
  /\ EnergyConsistent(inletState)
  /\ EnergyConsistent(ambientState)
  /\ ambientState.u = Zero
  /\ ambientState.v = Zero
  /\ inletState.v = Zero


\* C29: the first step() after the mount sequence (construction and
\* updateBoundaryConditions with valid parameters, no reset: Q is still the
\* constructor's buffer) passes the stability check, is committed and
\* leaves t > 0.
C29_FirstStepCommitted ==
  [][(/\ dpc = "loop"
      /\ pc = "commit"
      /\ steps = 1
      /\ Q = zeroField(nx * ny)
      /\ ValidParams(boundary)) => (isStable /\ Q' = Q_new /\ FGt(t', Zero))]_vars

\* C30: with speeds of the control panel only, after every frame the
\* accumulator lies in [0, 1) and the step() calls since the accumulator
\* was last set to 0 number the floor of the sum of the speeds since then.
C30_NoStepLost ==
  (AfterFrame /\ frame.ui) =>
    /\ stepsAccumulator >= Zero
    /\ stepsAccumulator < One
    /\ steps - frame.base = frame.sum \div SC

\* the third frame since the accumulator was set to 0, at changing speeds
\* of the control panel, with a fraction carried into it and left by it
C30_Witness ==
  /\ AfterFrame
  /\ frame.ui
  /\ frames = 3
  /\ frame.sum = 3500
  /\ frame.speed = 2000
  /\ frame.acc = Half
  /\ stepsAccumulator = Half
  /\ steps - frame.base = 3

====
